---- MODULE Spec2Model ----
(***************************************************************************)
(* The Tongits server of src/src/server.mjs: one game session with its     *)
(* three seats filled, the delayed startGame timer, and the               *)
(* 'player-action' handler with every handler it dispatches to.           *)
(* Indices (currentPlayerIndex, cardIndex, meldIndex) are 0-based as in   *)
(* the source; sequences are 1-based, so JavaScript's a[i] is At(a, i).   *)
(***************************************************************************)
EXTENDS Integers, Sequences, FiniteSets, TLC

VARIABLES
  game,           \* the game object of the session
  timerPending,   \* the setTimeout of 'join-game' has not fired yet
  crashed,        \* a handler ended in an uncaught TypeError
  steps,          \* 'player-action' messages handled so far
  drawsThisTurn,  \* cards taken by draw since the last discard or deal
  last            \* the last message: its seat, its action, the game before it

vars == <<game, timerPending, crashed, steps, drawsThisTurn, last>>

(***************************************************************************)
(* Bounds of the exploration.                                              *)
(***************************************************************************)
\* submissions of the current seat explored by Spec
MaxSteps == 3
\* submissions of any seat explored by SpecAnySeat
MaxAnySteps == 2
\* draw / discard submissions explored by SpecTurns
MaxTurnSteps == 6

PLAYERS_REQUIRED == 3
CARDS_PER_PLAYER == 12

(***************************************************************************)
(* Cards.                                                                  *)
(***************************************************************************)
suits == <<"hearts", "diamonds", "clubs", "spades">>
ranks == <<"A", "2", "3", "4", "5", "6", "7", "8", "9", "10", "J", "Q", "K">>

\* A card { suit, rank } is held as the number of its (suit, rank) pair, the
\* suits and ranks counted in the order of the two lists above.
createCard(suit, rank) ==
  ((CHOOSE i \in DOMAIN suits : suits[i] = suit) - 1) * Len(ranks)
    + (CHOOSE i \in DOMAIN ranks : ranks[i] = rank)

\* JavaScript's undefined, where it can stand in a list of cards
Undefined == 0

\* truthiness of a list slot: (card && ...)
Truthy(card) == card # Undefined

\* card.suit and card.rank
Suit(card) == IF Truthy(card) THEN suits[((card - 1) \div Len(ranks)) + 1] ELSE "undefined"
Rank(card) == IF Truthy(card) THEN ranks[((card - 1) % Len(ranks)) + 1] ELSE "undefined"

\* the 52 cards in the order the nested loops of createDeck push them
OrderedDeck ==
  [i \in 1..(Len(suits) * Len(ranks)) |->
     createCard(suits[((i - 1) \div Len(ranks)) + 1], ranks[((i - 1) % Len(ranks)) + 1])]

StandardDeck == {OrderedDeck[i] : i \in DOMAIN OrderedDeck}

rankOrder == [r \in {ranks[i] : i \in DOMAIN ranks} |-> (CHOOSE i \in DOMAIN ranks : ranks[i] = r) - 1]

\* rankOrder.indexOf(rank): -1 for a rank that is not in the list
rankToNumber(rank) == IF rank \in DOMAIN rankOrder THEN rankOrder[rank] ELSE -1

(***************************************************************************)
(* JavaScript array primitives.                                            *)
(***************************************************************************)
\* a[i]
At(a, i) == IF i >= 0 /\ i < Len(a) THEN a[i + 1] ELSE Undefined

\* the start position a.splice(i, 1) uses
SpliceStart(a, i) ==
  IF i < 0 THEN (IF Len(a) + i < 0 THEN 0 ELSE Len(a) + i)
  ELSE (IF i > Len(a) THEN Len(a) ELSE i)

\* the array after a.splice(i, 1)
Splice1(a, i) ==
  LET s == SpliceStart(a, i)
  IN  IF s < Len(a) THEN SubSeq(a, 1, s) \o SubSeq(a, s + 2, Len(a)) ELSE a

\* a.splice(i, 1)[0]
Spliced(a, i) == At(a, SpliceStart(a, i))

\* a.pop(): the array left
Pop(a) == IF Len(a) = 0 THEN a ELSE SubSeq(a, 1, Len(a) - 1)

\* a.pop(): the value returned
Top(a) == At(a, Len(a) - 1)

\* indices.map(i => hand[i])
RECURSIVE MapAt(_, _)
MapAt(hand, indices) ==
  IF indices = <<>> THEN <<>>
  ELSE <<At(hand, Head(indices))>> \o MapAt(hand, Tail(indices))

\* insertion of x into a list sorted by key, after every element whose key is
\* not greater (Array.prototype.sort is stable)
RECURSIVE InsertBy(_, _, _)
InsertBy(x, sorted, key) ==
  IF sorted = <<>> THEN <<x>>
  ELSE IF key[x] < key[Head(sorted)] THEN <<x>> \o sorted
  ELSE <<Head(sorted)>> \o InsertBy(x, Tail(sorted), key)

\* [...a].sort((x, y) => key[x] - key[y])
RECURSIVE SortBy(_, _)
SortBy(a, key) ==
  IF a = <<>> THEN <<>>
  ELSE InsertBy(a[Len(a)], SortBy(SubSeq(a, 1, Len(a) - 1), key), key)

Range(a) == {a[i] : i \in DOMAIN a}

\* indices.sort((a, b) => b - a)
SortDescending(indices) == SortBy(indices, [x \in Range(indices) |-> 0 - x])

\* indices.sort((a, b) => b - a).forEach(index => hand.splice(index, 1))
RECURSIVE SpliceEach(_, _)
SpliceEach(hand, sortedIndices) ==
  IF sortedIndices = <<>> THEN hand
  ELSE SpliceEach(Splice1(hand, Head(sortedIndices)), Tail(sortedIndices))

RemoveIndices(hand, indices) == SpliceEach(hand, SortDescending(indices))

\* cards.indexOf(card), 0-based, -1 when absent
IndexOf(cards, card) ==
  IF \E i \in DOMAIN cards : cards[i] = card
    THEN (CHOOSE i \in DOMAIN cards : cards[i] = card /\ \A j \in 1..(i - 1) : cards[j] # card) - 1
    ELSE -1

(***************************************************************************)
(* Meld validation.                                                        *)
(***************************************************************************)
SameRankAsFirst(cards) ==
  \A i \in DOMAIN cards : Truthy(cards[i]) /\ Rank(cards[i]) = Rank(At(cards, 0))

isThreeOfAKind(cards) == Len(cards) = 3 /\ SameRankAsFirst(cards)

isFourOfAKind(cards) == Len(cards) = 4 /\ SameRankAsFirst(cards)

\* [...cards].sort((a, b) => rankToNumber(a.rank) - rankToNumber(b.rank))
SortByRank(cards) == SortBy(cards, [c \in Range(cards) |-> rankToNumber(Rank(c))])

\* the sameSuit and consecutive tests of isStraightFlush on the sorted copy
SameSuitConsecutive(sortedCards) ==
  /\ \A i \in DOMAIN sortedCards : Suit(sortedCards[i]) = Suit(sortedCards[1])
  /\ \A i \in DOMAIN sortedCards :
       i = 1 \/ rankToNumber(Rank(sortedCards[i])) - rankToNumber(Rank(sortedCards[i - 1])) = 1

isStraightFlush(cards) ==
  IF Len(cards) < 3 \/ ~(\A i \in DOMAIN cards : Truthy(cards[i]))
    THEN FALSE
    ELSE SameSuitConsecutive(SortByRank(cards))

isValidMeld(cards) == isThreeOfAKind(cards) \/ isFourOfAKind(cards) \/ isStraightFlush(cards)

\* does some pair of hand cards make a meld with the card? (the canMeld field
\* of the result; the server never reads the indices field)
canFormMeldWithCard(card, playerHand) ==
  LET sameRankCards == SelectSeq(playerHand, LAMBDA c : Rank(c) = Rank(card))
      sameSuitCards == SelectSeq(playerHand, LAMBDA c : Suit(c) = Suit(card))
  IN  \/ Len(sameRankCards) >= 2
      \/ \E i \in 1..(Len(sameSuitCards) - 1) :
           \E j \in (i + 1)..Len(sameSuitCards) :
             isValidMeld(<<card, sameSuitCards[i], sameSuitCards[j]>>)

\* canFormMeldWithCard reads card.rank inside the filter callback: with an
\* undefined card and a hand that is not empty that is a TypeError
canFormMeldWithCardThrows(card, playerHand) == ~Truthy(card) /\ Len(playerHand) > 0

(***************************************************************************)
(* Scoring.                                                                *)
(***************************************************************************)
\* parseInt(rank) || 0
ParseIntOrZero(rank) ==
  IF rank \in {"2", "3", "4", "5", "6", "7", "8", "9", "10"} THEN rankToNumber(rank) + 1 ELSE 0

calculateCardPoints(card) ==
  IF Rank(card) = "A" THEN 1
  ELSE IF Rank(card) \in {"J", "Q", "K"} THEN 10
  ELSE ParseIntOrZero(Rank(card))

\* the positions after i whose card has the rank of the card at i
SameRankAfter(cards, i) == {j \in (i + 1)..Len(cards) : Rank(cards[j]) = Rank(cards[i])}

Least(S) == CHOOSE x \in S : \A y \in S : x <= y

\* the positions i that have two later cards of the rank of the card at i
SetStarts(cards) == {i \in DOMAIN cards : Cardinality(SameRankAfter(cards, i)) >= 2}

\* the triple of the three nested loops that starts at i and goes on at j: k
\* is the first position after j with the rank
SetFrom(cards, i, j) == <<i, j, Least(SameRankAfter(cards, j))>>

\* the first index triple i < j < k, in the order of the three nested loops,
\* whose cards share a rank, <<>> when there is none: i is the least of the
\* starts, j the first position after i with the rank
FirstSetOf(cards, starts) ==
  IF starts = {} THEN <<>>
  ELSE SetFrom(cards, Least(starts), Least(SameRankAfter(cards, Least(starts))))

FirstSet(cards) == FirstSetOf(cards, SetStarts(cards))

\* the positions i of the rank-sorted copy at which three neighbours share a
\* suit and have consecutive ranks
RunStarts(sortedCards) ==
  {i \in 1..(Len(sortedCards) - 2) :
     /\ Suit(sortedCards[i]) = Suit(sortedCards[i + 1])
     /\ Suit(sortedCards[i + 1]) = Suit(sortedCards[i + 2])
     /\ rankToNumber(Rank(sortedCards[i + 1])) - rankToNumber(Rank(sortedCards[i])) = 1
     /\ rankToNumber(Rank(sortedCards[i + 2])) - rankToNumber(Rank(sortedCards[i + 1])) = 1}

\* the first of them; 0 when there is none
FirstOf(starts) == IF starts = {} THEN 0 ELSE Least(starts)

FirstRun(sortedCards) == FirstOf(RunStarts(sortedCards))

\* cards.splice(cards.indexOf(card), 1)
SpliceCard(cards, card) == Splice1(cards, IndexOf(cards, card))

\* the set found at the positions of the triple: the meld and the cards left
RemoveSet(cards, set) ==
  [meld |-> <<cards[set[1]], cards[set[2]], cards[set[3]]>>,
   cards |-> Splice1(Splice1(Splice1(cards, set[3] - 1), set[2] - 1), set[1] - 1)]

\* the run found at position i of the sorted copy (none when i = 0)
RemoveRun(cards, sortedCards, i) ==
  IF i = 0
    THEN [meld |-> <<>>, cards |-> cards]
    ELSE [meld |-> <<sortedCards[i], sortedCards[i + 1], sortedCards[i + 2]>>,
          cards |-> SpliceCard(SpliceCard(SpliceCard(cards, sortedCards[i + 2]),
                                          sortedCards[i + 1]),
                               sortedCards[i])]

\* the second loop of findAndRemoveMeld, over the sorted copy
FindRun(cards, sortedCards) == RemoveRun(cards, sortedCards, FirstRun(sortedCards))

\* the first loop of findAndRemoveMeld, and the second when it finds nothing
FindSetOrRun(cards, set) ==
  IF set # <<>> THEN RemoveSet(cards, set) ELSE FindRun(cards, SortByRank(cards))

\* findAndRemoveMeld(cards): the meld found (<<>> for null) and the cards left
findAndRemoveMeld(cards) == FindSetOrRun(cards, FirstSet(cards))

\* the cards calculateHandPoints has left when its loop ends; found is what
\* findAndRemoveMeld has returned for them
RECURSIVE ResidualAfter(_)
ResidualAfter(found) ==
  IF found.meld = <<>> THEN found.cards ELSE ResidualAfter(findAndRemoveMeld(found.cards))

Residual(allCards) == ResidualAfter(findAndRemoveMeld(allCards))

RECURSIVE SumPoints(_)
SumPoints(cards) ==
  IF cards = <<>> THEN 0 ELSE calculateCardPoints(Head(cards)) + SumPoints(Tail(cards))

calculateHandPoints(hand) == SumPoints(Residual(hand))

(***************************************************************************)
(* Deck construction and dealing.                                          *)
(***************************************************************************)
\* a[i] and a[j] exchanged (0-based)
Swap(a, i, j) == [a EXCEPT ![i + 1] = a[j + 1], ![j + 1] = a[i + 1]]

\* the Fisher-Yates loop from position i down to 1; random[i] is the value
\* Math.floor(Math.random() * (i + 1)) takes at position i
RECURSIVE FisherYates(_, _, _)
FisherYates(a, i, random) ==
  IF i <= 0 THEN a ELSE FisherYates(Swap(a, i, random[i]), i - 1, random)

shuffleDeck(deck, random) == FisherYates(deck, Len(deck) - 1, random)

createDeck(random) == shuffleDeck(OrderedDeck, random)

\* dealCards(deck, numPlayers, cardsPerPlayer): the e-th pop (e = 0, 1, ...) goes
\* to hand e % numPlayers, while the deck has cards
dealCards(deck, numPlayers, cardsPerPlayer) ==
  LET wanted == numPlayers * cardsPerPlayer
      dealt == IF Len(deck) < wanted THEN Len(deck) ELSE wanted
      Count(j) == Cardinality({e \in 0..(dealt - 1) : e % numPlayers = j})
  IN  [hands |-> [j \in 1..numPlayers |->
                    [i \in 1..Count(j - 1) |-> deck[Len(deck) - ((i - 1) * numPlayers + (j - 1))]]],
       remainingDeck |-> SubSeq(deck, 1, Len(deck) - dealt)]

(***************************************************************************)
(* Outcomes of Math.random.  A run gives, for each loop position i of a    *)
(* Fisher-Yates shuffle, the value of Math.floor(Math.random() * (i + 1)). *)
(* Run 1 deals seat 0 the hearts A..K in order and seat 1 three sets and   *)
(* 3d 3c 4s, two hands of 10 points.  Run 2 deals seat 0 6h 7h 8h 9h ...,  *)
(* seat 1 5h 4h ... and seat 2 two runs interleaved by rank.               *)
(***************************************************************************)
RandomRun1 ==
  <<1, 1, 1, 4, 3, 5, 3, 5, 2, 7, 6, 9, 12, 10, 12, 16, 3, 11, 2, 6, 10, 21, 15, 9, 20, 4,
    8, 6, 7, 7, 20, 17, 6, 2, 19, 5, 32, 27, 4, 19, 14, 3, 39, 39, 2, 31, 26, 1, 18, 13, 0>>

RandomRun2 ==
  <<1, 0, 1, 2, 5, 2, 2, 7, 1, 9, 1, 8, 5, 12, 8, 1, 9, 11, 7, 9, 2, 5, 14, 2, 11, 10,
    13, 10, 0, 27, 9, 6, 26, 29, 3, 25, 28, 26, 5, 27, 13, 8, 2, 39, 7, 1, 3, 6, 0, 4, 5>>

\* Math.random() always below 1 / (i + 1): every position is exchanged with position 0
RandomRunZero == [i \in 1..51 |-> 0]

DeckRuns == <<RandomRun1, RandomRun2>>

DeckRunInputs == DOMAIN DeckRuns

\* createDeck and dealCards as startGame and handleNextGame call them, for each
\* run of Math.random
Deals ==
  [r \in DeckRunInputs |-> dealCards(createDeck(DeckRuns[r]), PLAYERS_REQUIRED, CARDS_PER_PLAYER)]

(***************************************************************************)
(* The session.                                                            *)
(***************************************************************************)
Seats == 0..(PLAYERS_REQUIRED - 1)

SocketIds == <<"s1", "s2", "s3">>

NoWinner == "none"

\* the player object 'join-game' pushes
NewPlayer(id) ==
  [id |-> id, hand |-> <<>>, exposedMelds |-> <<>>, secretMelds |-> <<>>, score |-> 0,
   consecutiveWins |-> 0, isSapawed |-> FALSE, turnsPlayed |-> 0]

\* the game object 'join-game' creates, with its fields as the third join
\* leaves them: three players, gameStarted set, the startGame timer running
JoinedGame ==
  [players |-> [i \in 1..PLAYERS_REQUIRED |-> NewPlayer(SocketIds[i])],
   deck |-> <<>>, discardPile |-> <<>>, currentPlayerIndex |-> 0,
   hasDrawnThisTurn |-> FALSE, round |-> 1, gameEnded |-> FALSE, winner |-> NoWinner,
   selectedCardIndices |-> <<>>, gameStarted |-> TRUE, firstPlayerHasPlayed |-> FALSE]

CurrentPlayer(g) == g.players[g.currentPlayerIndex + 1]

\* the hands and exposed melds startGame and handleNextGame both set
DealtPlayers(players, hands, extraCard) ==
  [i \in DOMAIN players |->
     [players[i] EXCEPT !.hand = IF i = 1 THEN Append(hands[i], extraCard) ELSE hands[i],
                        !.exposedMelds = <<>>]]

startGame(g, random) ==
  IF Len(g.players) # PLAYERS_REQUIRED THEN g
  ELSE LET dealt == Deals[random]
       IN  [g EXCEPT !.deck = Pop(dealt.remainingDeck),
                     !.discardPile = <<>>,
                     !.hasDrawnThisTurn = TRUE,
                     !.selectedCardIndices = <<>>,
                     !.firstPlayerHasPlayed = FALSE,
                     !.players = DealtPlayers(g.players, dealt.hands, Top(dealt.remainingDeck))]

\* handleDraw without its first line, "if (game.hasDrawnThisTurn) return"
handleDrawAgain(g, fromDeck, meldIndices) ==
  LET currentPlayer == CurrentPlayer(g)
      p == g.currentPlayerIndex + 1
  IN  IF ~fromDeck /\ Len(g.discardPile) > 0
        THEN LET topCard == Top(g.discardPile)
                 drawnCard == topCard
                 meldCards == MapAt(currentPlayer.hand, meldIndices) \o <<drawnCard>>
                 popped == [g EXCEPT !.discardPile = Pop(g.discardPile)]
             IN  IF ~canFormMeldWithCard(topCard, currentPlayer.hand) THEN g
                 ELSE IF Len(meldIndices) > 0 /\ isValidMeld(meldCards)
                   THEN [popped EXCEPT
                           !.players[p].hand = RemoveIndices(currentPlayer.hand, meldIndices),
                           !.players[p].exposedMelds = Append(currentPlayer.exposedMelds, meldCards),
                           !.selectedCardIndices = <<>>,
                           !.hasDrawnThisTurn = TRUE]
                   ELSE IF Truthy(drawnCard)
                     THEN [popped EXCEPT !.players[p].hand = Append(currentPlayer.hand, drawnCard),
                                         !.hasDrawnThisTurn = TRUE]
                     ELSE popped
        ELSE IF Len(g.deck) > 0
          THEN [g EXCEPT !.deck = Pop(g.deck),
                         !.players[p].hand = Append(currentPlayer.hand, Top(g.deck)),
                         !.hasDrawnThisTurn = TRUE]
          ELSE g

\* handleDraw with the deck popped without the test "game.deck.length > 0" and
\* the result pushed without the test "if (drawnCard)"
handleDrawUnchecked(g, fromDeck, meldIndices) ==
  LET currentPlayer == CurrentPlayer(g)
      p == g.currentPlayerIndex + 1
  IN  IF g.hasDrawnThisTurn THEN g
      ELSE IF ~fromDeck /\ Len(g.discardPile) > 0
        THEN LET topCard == Top(g.discardPile)
                 drawnCard == topCard
                 meldCards == MapAt(currentPlayer.hand, meldIndices) \o <<drawnCard>>
                 popped == [g EXCEPT !.discardPile = Pop(g.discardPile)]
             IN  IF ~canFormMeldWithCard(topCard, currentPlayer.hand) THEN g
                 ELSE IF Len(meldIndices) > 0 /\ isValidMeld(meldCards)
                   THEN [popped EXCEPT
                           !.players[p].hand = RemoveIndices(currentPlayer.hand, meldIndices),
                           !.players[p].exposedMelds = Append(currentPlayer.exposedMelds, meldCards),
                           !.selectedCardIndices = <<>>,
                           !.hasDrawnThisTurn = TRUE]
                   ELSE IF Truthy(drawnCard)
                     THEN [popped EXCEPT !.players[p].hand = Append(currentPlayer.hand, drawnCard),
                                         !.hasDrawnThisTurn = TRUE]
                     ELSE popped
        ELSE [g EXCEPT !.deck = Pop(g.deck),
                       !.players[p].hand = Append(currentPlayer.hand, Top(g.deck)),
                       !.hasDrawnThisTurn = TRUE]

handleDraw(g, fromDeck, meldIndices) ==
  LET currentPlayer == CurrentPlayer(g)
      p == g.currentPlayerIndex + 1
  IN  IF g.hasDrawnThisTurn THEN g
      ELSE IF ~fromDeck /\ Len(g.discardPile) > 0
        THEN LET topCard == Top(g.discardPile)
                 drawnCard == topCard
                 meldCards == MapAt(currentPlayer.hand, meldIndices) \o <<drawnCard>>
                 popped == [g EXCEPT !.discardPile = Pop(g.discardPile)]
             IN  IF ~canFormMeldWithCard(topCard, currentPlayer.hand) THEN g
                 ELSE IF Len(meldIndices) > 0 /\ isValidMeld(meldCards)
                   THEN [popped EXCEPT
                           !.players[p].hand = RemoveIndices(currentPlayer.hand, meldIndices),
                           !.players[p].exposedMelds = Append(currentPlayer.exposedMelds, meldCards),
                           !.selectedCardIndices = <<>>,
                           !.hasDrawnThisTurn = TRUE]
                   ELSE IF Truthy(drawnCard)
                     THEN [popped EXCEPT !.players[p].hand = Append(currentPlayer.hand, drawnCard),
                                         !.hasDrawnThisTurn = TRUE]
                     ELSE popped
        ELSE IF Len(g.deck) > 0
          THEN [g EXCEPT !.deck = Pop(g.deck),
                         !.players[p].hand = Append(currentPlayer.hand, Top(g.deck)),
                         !.hasDrawnThisTurn = TRUE]
          ELSE g

\* handleDraw ends in a TypeError when the top of the discard pile is undefined
\* and the hand it is matched against has cards
handleDrawThrows(g, fromDeck) ==
  /\ ~g.hasDrawnThisTurn
  /\ ~fromDeck /\ Len(g.discardPile) > 0
  /\ canFormMeldWithCardThrows(Top(g.discardPile), CurrentPlayer(g).hand)

\* handleDiscard taking the last card of the hand (hand.pop()) instead of the
\* card at cardIndex
handleDiscardLast(g, cardIndex) ==
  LET currentPlayer == CurrentPlayer(g)
      p == g.currentPlayerIndex + 1
  IN  IF ~g.hasDrawnThisTurn /\ g.currentPlayerIndex # 0 THEN g
      ELSE [g EXCEPT !.players[p].hand = Pop(currentPlayer.hand),
                     !.discardPile = Append(g.discardPile, Top(currentPlayer.hand)),
                     !.players[p].turnsPlayed = currentPlayer.turnsPlayed + 1,
                     !.currentPlayerIndex = (g.currentPlayerIndex + 1) % Len(g.players),
                     !.hasDrawnThisTurn = FALSE,
                     !.selectedCardIndices = <<>>]

handleDiscard(g, cardIndex) ==
  LET currentPlayer == CurrentPlayer(g)
      p == g.currentPlayerIndex + 1
  IN  IF ~g.hasDrawnThisTurn /\ g.currentPlayerIndex # 0 THEN g
      ELSE [g EXCEPT !.players[p].hand = Splice1(currentPlayer.hand, cardIndex),
                     !.discardPile = Append(g.discardPile, Spliced(currentPlayer.hand, cardIndex)),
                     !.players[p].turnsPlayed = currentPlayer.turnsPlayed + 1,
                     !.currentPlayerIndex = (g.currentPlayerIndex + 1) % Len(g.players),
                     !.hasDrawnThisTurn = FALSE,
                     !.selectedCardIndices = <<>>]

\* handleTongits leaving the other players' consecutiveWins as they are
handleTongitsKeepStreaks(g) ==
  LET currentPlayer == CurrentPlayer(g)
  IN  [g EXCEPT
         !.players = [i \in DOMAIN g.players |->
                        IF g.players[i].id # currentPlayer.id
                          THEN [g.players[i] EXCEPT !.score = calculateHandPoints(g.players[i].hand)]
                          ELSE [g.players[i] EXCEPT !.score = 0,
                                                    !.consecutiveWins = currentPlayer.consecutiveWins + 1]],
         !.winner = currentPlayer.id,
         !.gameEnded = TRUE]

handleTongits(g) ==
  LET currentPlayer == CurrentPlayer(g)
  IN  [g EXCEPT
         !.players = [i \in DOMAIN g.players |->
                        IF g.players[i].id # currentPlayer.id
                          THEN [g.players[i] EXCEPT !.score = calculateHandPoints(g.players[i].hand),
                                                    !.consecutiveWins = 0]
                          ELSE [g.players[i] EXCEPT !.score = 0,
                                                    !.consecutiveWins = currentPlayer.consecutiveWins + 1]],
         !.winner = currentPlayer.id,
         !.gameEnded = TRUE]

\* handleMeld passing the turn on, as a discard does, after exposing the meld
handleMeldAdvances(g, cardIndices) ==
  LET currentPlayer == CurrentPlayer(g)
      p == g.currentPlayerIndex + 1
      meldedCards == MapAt(currentPlayer.hand, cardIndices)
      melded == [g EXCEPT !.players[p].exposedMelds = Append(currentPlayer.exposedMelds, meldedCards),
                          !.players[p].hand = RemoveIndices(currentPlayer.hand, cardIndices),
                          !.selectedCardIndices = <<>>]
  IN  IF ~isValidMeld(meldedCards) THEN g
      ELSE IF Len(CurrentPlayer(melded).hand) = 0 THEN handleTongits(melded)
      ELSE [melded EXCEPT !.currentPlayerIndex =
                            (g.currentPlayerIndex + 1) % Len(g.players)]

handleMeld(g, cardIndices) ==
  LET currentPlayer == CurrentPlayer(g)
      p == g.currentPlayerIndex + 1
      meldedCards == MapAt(currentPlayer.hand, cardIndices)
      melded == [g EXCEPT !.players[p].exposedMelds = Append(currentPlayer.exposedMelds, meldedCards),
                          !.players[p].hand = RemoveIndices(currentPlayer.hand, cardIndices),
                          !.selectedCardIndices = <<>>]
  IN  IF ~isValidMeld(meldedCards) THEN g
      ELSE IF Len(CurrentPlayer(melded).hand) = 0 THEN handleTongits(melded)
      ELSE melded

\* handleSapaw ends in a TypeError when the target seat does not exist
\* (targetPlayer.exposedMelds of undefined) or has no such meld (the spread of
\* undefined)
handleSapawThrows(g, targetPlayerIndex, targetMeldIndex) ==
  \/ ~(targetPlayerIndex >= 0 /\ targetPlayerIndex < Len(g.players))
  \/ ~(targetMeldIndex >= 0
       /\ targetMeldIndex < Len(g.players[targetPlayerIndex + 1].exposedMelds))

\* handleSapaw flagging the target only when it is another player
handleSapawOthersOnly(g, targetPlayerIndex, targetMeldIndex, cardIndices) ==
  LET currentPlayer == CurrentPlayer(g)
      p == g.currentPlayerIndex + 1
      t == targetPlayerIndex + 1
      targetPlayer == g.players[t]
      sapawCards == MapAt(currentPlayer.hand, cardIndices)
      targetMeld == targetPlayer.exposedMelds[targetMeldIndex + 1] \o sapawCards
      extended == [g EXCEPT !.players[t].exposedMelds[targetMeldIndex + 1] = targetMeld]
      removed == [extended EXCEPT !.players[p].hand = RemoveIndices(currentPlayer.hand, cardIndices)]
  IN  IF ~isValidMeld(targetMeld) THEN g
      ELSE [removed EXCEPT !.players[t].isSapawed = (t # p) \/ targetPlayer.isSapawed,
                           !.selectedCardIndices = <<>>]

handleSapaw(g, targetPlayerIndex, targetMeldIndex, cardIndices) ==
  LET currentPlayer == CurrentPlayer(g)
      p == g.currentPlayerIndex + 1
      t == targetPlayerIndex + 1
      targetPlayer == g.players[t]
      sapawCards == MapAt(currentPlayer.hand, cardIndices)
      targetMeld == targetPlayer.exposedMelds[targetMeldIndex + 1] \o sapawCards
      extended == [g EXCEPT !.players[t].exposedMelds[targetMeldIndex + 1] = targetMeld]
      removed == [extended EXCEPT !.players[p].hand = RemoveIndices(currentPlayer.hand, cardIndices)]
  IN  IF ~isValidMeld(targetMeld) THEN g
      ELSE [removed EXCEPT !.players[t].isSapawed = TRUE,
                           !.selectedCardIndices = <<>>]

\* the reduce with "<=" for "<": the position of the last entry with the least score
LastLowest(scores) ==
  CHOOSE i \in DOMAIN scores :
    /\ \A j \in DOMAIN scores : scores[i] <= scores[j]
    /\ \A j \in (i + 1)..Len(scores) : scores[j] > scores[i]

\* scores.reduce((min, player) => player.score < min.score ? player : min):
\* the position of the first entry with the least score
FirstLowest(scores) ==
  CHOOSE i \in DOMAIN scores :
    /\ \A j \in DOMAIN scores : scores[i] <= scores[j]
    /\ \A j \in 1..(i - 1) : scores[j] > scores[i]

\* the forEach and the two assignments that end handleCallDraw
EndWithScores(g, scores, winner) ==
  [g EXCEPT
     !.players = [i \in DOMAIN g.players |->
                    [g.players[i] EXCEPT
                       !.score = scores[i],
                       !.consecutiveWins = IF g.players[i].id = winner.id
                                             THEN g.players[i].consecutiveWins + 1
                                             ELSE 0]],
     !.winner = winner.id,
     !.gameEnded = TRUE]

\* the reduce that picks the winner
EndWithWinner(g, scores) == EndWithScores(g, scores, g.players[FirstLowest(scores)])

handleCallDraw(g) ==
  EndWithWinner(g, [i \in DOMAIN g.players |-> calculateHandPoints(g.players[i].hand)])

\* the order of String.prototype.localeCompare on the suit and rank names
suitsByLocale == <<"clubs", "diamonds", "hearts", "spades">>
ranksByLocale == <<"10", "2", "3", "4", "5", "6", "7", "8", "9", "A", "J", "K", "Q">>

PositionIn(list, x) == CHOOSE i \in DOMAIN list : list[i] = x

handleAutoSort(g, playerIndex) ==
  LET hand == g.players[playerIndex + 1].hand
      key == [c \in Range(hand) |->
                PositionIn(suitsByLocale, Suit(c)) * Len(ranksByLocale) + PositionIn(ranksByLocale, Rank(c))]
  IN  [g EXCEPT !.players[playerIndex + 1].hand = SortBy(hand, key)]

handleShuffle(g, playerIndex, random) ==
  LET hand == g.players[playerIndex + 1].hand
  IN  [g EXCEPT !.players[playerIndex + 1].hand = FisherYates(hand, Len(hand) - 1, random)]

handleNextGame(g, random) ==
  LET dealt == Deals[random]
      players == DealtPlayers(g.players, dealt.hands, Top(dealt.remainingDeck))
  IN  [g EXCEPT !.round = g.round + 1,
                !.deck = Pop(dealt.remainingDeck),
                !.discardPile = <<>>,
                !.currentPlayerIndex = 0,
                !.hasDrawnThisTurn = TRUE,
                !.gameEnded = FALSE,
                !.selectedCardIndices = <<>>,
                !.firstPlayerHasPlayed = FALSE,
                !.players = [i \in DOMAIN players |->
                               [players[i] EXCEPT !.secretMelds = <<>>, !.score = 0,
                                                  !.isSapawed = FALSE, !.turnsPlayed = 0]]]

handleResetGame(g, random) ==
  handleNextGame([g EXCEPT !.round = 1,
                           !.players = [i \in DOMAIN g.players |->
                                          [g.players[i] EXCEPT !.consecutiveWins = 0]]],
                 random)

(***************************************************************************)
(* Actions a client can send.                                              *)
(***************************************************************************)
NoTarget == [playerIndex |-> 0, meldIndex |-> 0]

Action(type) ==
  [type |-> type, fromDeck |-> FALSE, meldIndices |-> <<>>, cardIndex |-> 0,
   cardIndices |-> <<>>, target |-> NoTarget, indices |-> <<>>, random |-> 1]

\* the hand positions a client names: the first two, and one past the largest hand
CardIndexInputs == {0, 1, 13}

\* the position lists a client names for a meld: the first three cards, one
\* position three times, the first twelve cards, thirteen cards
CardIndicesInputs ==
  {<<0, 1, 2>>, <<0, 0, 0>>, [i \in 1..12 |-> i - 1], [i \in 1..13 |-> i - 1]}

DrawInputs ==
  {[Action("draw") EXCEPT !.fromDeck = TRUE],
   [Action("draw") EXCEPT !.fromDeck = FALSE],
   [Action("draw") EXCEPT !.fromDeck = FALSE, !.meldIndices = <<0, 1>>]}

DiscardInputs == {[Action("discard") EXCEPT !.cardIndex = i] : i \in CardIndexInputs}

MeldInputs == {[Action("meld") EXCEPT !.cardIndices = l] : l \in CardIndicesInputs}

\* a lay-off of the first hand card on the first meld of a seat; seat 3 does not exist
SapawInputs ==
  {[Action("sapaw") EXCEPT !.cardIndices = <<0>>, !.target = [playerIndex |-> t, meldIndex |-> 0]] :
     t \in 0..PLAYERS_REQUIRED}

SelectInputs == {[Action("updateSelectedIndices") EXCEPT !.indices = <<0>>]}

DealInputs(type) == {[Action(type) EXCEPT !.random = r] : r \in DeckRunInputs}

(***************************************************************************)
(* The 'player-action' handler.                                            *)
(***************************************************************************)
handlePlayerAction(g, action, playerIndex) ==
  IF playerIndex = 0 /\ ~g.firstPlayerHasPlayed /\ action.type = "draw" THEN g
  ELSE CASE action.type = "draw" -> handleDraw(g, action.fromDeck, action.meldIndices)
         [] action.type = "discard" ->
              LET d == handleDiscard(g, action.cardIndex)
              IN  IF playerIndex = 0 /\ ~d.firstPlayerHasPlayed
                    THEN [d EXCEPT !.firstPlayerHasPlayed = TRUE]
                    ELSE d
         [] action.type = "meld" -> handleMeld(g, action.cardIndices)
         [] action.type = "sapaw" ->
              handleSapaw(g, action.target.playerIndex, action.target.meldIndex, action.cardIndices)
         [] action.type = "callDraw" -> handleCallDraw(g)
         [] action.type = "updateSelectedIndices" -> [g EXCEPT !.selectedCardIndices = action.indices]
         [] action.type = "autoSort" -> handleAutoSort(g, playerIndex)
         [] action.type = "shuffle" -> handleShuffle(g, playerIndex, RandomRunZero)
         [] action.type = "nextGame" -> handleNextGame(g, action.random)
         [] action.type = "resetGame" -> handleResetGame(g, action.random)
         [] OTHER -> g

\* the submissions in which a handler ends in an uncaught TypeError
handlePlayerActionThrows(g, action, playerIndex) ==
  \/ /\ action.type = "draw"
     /\ ~(playerIndex = 0 /\ ~g.firstPlayerHasPlayed)
     /\ handleDrawThrows(g, action.fromDeck)
  \/ /\ action.type = "sapaw"
     /\ handleSapawThrows(g, action.target.playerIndex, action.target.meldIndex)

\* the listener testing only that the socket is seated (playerIndex !== -1)
IsSeated(g, playerIndex) == playerIndex >= 0 /\ playerIndex < Len(g.players)

\* does the 'player-action' listener reach handlePlayerAction for this socket?
IsCurrentSeat(g, playerIndex) == playerIndex = g.currentPlayerIndex

\* the game after socket.on('player-action') has run for the socket of seat
\* playerIndex
onPlayerAction(g, action, playerIndex) ==
  IF ~IsCurrentSeat(g, playerIndex) THEN g
  ELSE IF handlePlayerActionThrows(g, action, playerIndex) THEN g
  ELSE handlePlayerAction(g, action, playerIndex)

onPlayerActionThrows(g, action, playerIndex) ==
  IsCurrentSeat(g, playerIndex) /\ handlePlayerActionThrows(g, action, playerIndex)

\* the cards a draw has taken since the last discard or deal
DrawsAfter(g, after, action, draws) ==
  IF after = g THEN draws
  ELSE IF action.type = "draw" THEN draws + 1
  ELSE IF action.type \in {"discard", "nextGame", "resetGame"} THEN 0
  ELSE draws

TimerAction == Action("startGame")

Init ==
  /\ game = JoinedGame
  /\ timerPending = TRUE
  /\ crashed = FALSE
  /\ steps = 0
  /\ drawsThisTurn = 0
  /\ last = [seat |-> -1, action |-> Action("none"), before |-> JoinedGame]

\* setTimeout(() => startGame(game), 1000) fires
StartGameTimer ==
  /\ timerPending /\ ~crashed
  /\ \E r \in DeckRunInputs : game' = startGame(game, r)
  /\ timerPending' = FALSE
  /\ drawsThisTurn' = 0
  /\ last' = [seat |-> -1, action |-> TimerAction, before |-> game]
  /\ UNCHANGED <<crashed, steps>>

\* one 'player-action' message from the socket of seat p
Submit(p, action, bound) ==
  /\ ~crashed
  /\ steps < bound
  /\ steps' = steps + 1
  /\ game' = onPlayerAction(game, action, p)
  /\ crashed' = onPlayerActionThrows(game, action, p)
  /\ drawsThisTurn' = DrawsAfter(game, game', action, drawsThisTurn)
  /\ last' = [seat |-> p, action |-> action, before |-> game]
  /\ UNCHANGED timerPending

Draw(p, bound) == \E a \in DrawInputs : Submit(p, a, bound)
Discard(p, bound) == \E a \in DiscardInputs : Submit(p, a, bound)
Meld(p, bound) == \E a \in MeldInputs : Submit(p, a, bound)
Sapaw(p, bound) == \E a \in SapawInputs : Submit(p, a, bound)
CallDraw(p, bound) == Submit(p, Action("callDraw"), bound)
UpdateSelectedIndices(p, bound) == \E a \in SelectInputs : Submit(p, a, bound)
AutoSort(p, bound) == Submit(p, Action("autoSort"), bound)
Shuffle(p, bound) == Submit(p, Action("shuffle"), bound)
NextGame(p, bound) == \E a \in DealInputs("nextGame") : Submit(p, a, bound)
ResetGame(p, bound) == \E a \in DealInputs("resetGame") : Submit(p, a, bound)

\* the seat whose turn it is sends any action
Next ==
  \/ StartGameTimer
  \/ Draw(game.currentPlayerIndex, MaxSteps)
  \/ Discard(game.currentPlayerIndex, MaxSteps)
  \/ Meld(game.currentPlayerIndex, MaxSteps)
  \/ Sapaw(game.currentPlayerIndex, MaxSteps)
  \/ CallDraw(game.currentPlayerIndex, MaxSteps)
  \/ UpdateSelectedIndices(game.currentPlayerIndex, MaxSteps)
  \/ AutoSort(game.currentPlayerIndex, MaxSteps)
  \/ Shuffle(game.currentPlayerIndex, MaxSteps)
  \/ NextGame(game.currentPlayerIndex, MaxSteps)
  \/ ResetGame(game.currentPlayerIndex, MaxSteps)

Spec == Init /\ [][Next]_vars

\* any seat sends any action
NextAnySeat ==
  \/ StartGameTimer
  \/ \E p \in Seats : Draw(p, MaxAnySteps)
  \/ \E p \in Seats : Discard(p, MaxAnySteps)
  \/ \E p \in Seats : Meld(p, MaxAnySteps)
  \/ \E p \in Seats : Sapaw(p, MaxAnySteps)
  \/ \E p \in Seats : CallDraw(p, MaxAnySteps)
  \/ \E p \in Seats : UpdateSelectedIndices(p, MaxAnySteps)
  \/ \E p \in Seats : AutoSort(p, MaxAnySteps)
  \/ \E p \in Seats : Shuffle(p, MaxAnySteps)
  \/ \E p \in Seats : NextGame(p, MaxAnySteps)
  \/ \E p \in Seats : ResetGame(p, MaxAnySteps)

SpecAnySeat == Init /\ [][NextAnySeat]_vars

\* the seat whose turn it is draws or discards
NextTurns ==
  \/ StartGameTimer
  \/ Draw(game.currentPlayerIndex, MaxTurnSteps)
  \/ Discard(game.currentPlayerIndex, MaxTurnSteps)

SpecTurns == Init /\ [][NextTurns]_vars

(***************************************************************************)
(* What the last message was, for the properties below.                    *)
(***************************************************************************)
Before == last.before

\* the last step was a 'player-action' message of the given type
Submitted(type) == last.seat \in Seats /\ last.action.type = type

\* ... sent by the seat whose turn it was, so that handlePlayerAction ran
InTurn(type) == Submitted(type) /\ last.seat = Before.currentPlayerIndex

\* the acting seat's player object before and after the last message
ActorBefore == Before.players[last.seat + 1]
ActorAfter == game.players[last.seat + 1]

\* startGame has dealt
Started == ~timerPending

RECURSIVE Flatten(_)
Flatten(lists) == IF lists = <<>> THEN <<>> ELSE Head(lists) \o Flatten(Tail(lists))

\* every card of the session: deck, discard pile, hands, exposed and secret melds
AllCards(g) ==
  g.deck \o g.discardPile
    \o Flatten([i \in DOMAIN g.players |->
                  g.players[i].hand \o Flatten(g.players[i].exposedMelds)
                    \o Flatten(g.players[i].secretMelds)])

\* a is a with exactly the positions in the set gone (0-based)
WithoutPositions(a, positions) ==
  LET kept == {i \in 0..(Len(a) - 1) : i \notin positions}
      Nth(n) == CHOOSE i \in kept : Cardinality({j \in kept : j < i}) = n - 1
  IN  [n \in 1..Cardinality(kept) |-> a[Nth(n) + 1]]

\* the players other than seat p are as they were before the last message
OthersUnchanged(p) ==
  \A i \in DOMAIN game.players : i # p + 1 => game.players[i] = Before.players[i]

(***************************************************************************)
(* C1.  Card conservation: once startGame has dealt, the deck, the discard *)
(* pile, the hands and the melds together hold each of the 52 cards of the *)
(* standard deck exactly once, whatever actions have been sent.            *)
(* The code lets this fail: see C1_CardConservation's trace.               *)
(***************************************************************************)
C1_CardConservation ==
  Started =>
    /\ Len(AllCards(game)) = Cardinality(StandardDeck)
    /\ Range(AllCards(game)) = StandardDeck


(***************************************************************************)
(* C2.  A 'player-action' message from a seat other than the current seat  *)
(* is rejected: it leaves the whole game object as it was and no handler   *)
(* runs (so none can fail).  Checked under SpecAnySeat, where every seat   *)
(* sends every action type.                                                *)
(***************************************************************************)
C2_OutOfTurnRejected ==
  (last.seat \in Seats /\ last.seat # Before.currentPlayerIndex) =>
    (game = Before /\ ~crashed)

\* a seat that is not the current one has sent a discard of a card it holds,
\* while the current seat could have discarded
C2_Witness ==
  /\ Started
  /\ Submitted("discard")
  /\ last.seat # Before.currentPlayerIndex
  /\ last.action.cardIndex < Len(ActorBefore.hand)
  /\ Before.hasDrawnThisTurn

(***************************************************************************)
(* C3.  A discard by the current seat changes the session only when the    *)
(* seat has drawn this turn (hasDrawnThisTurn), the one exception being    *)
(* seat 0 before its first discard of the round (firstPlayerHasPlayed      *)
(* false); any other discard is a no-op.                                   *)
(***************************************************************************)
C3_DiscardNeedsDraw ==
  ( /\ InTurn("discard")
    /\ ~Before.hasDrawnThisTurn
    /\ ~(last.seat = 0 /\ ~Before.firstPlayerHasPlayed) ) =>
    game = Before

(***************************************************************************)
(* C4.  An accepted discard of the card at cardIndex (a position of the    *)
(* hand) by seat p moves exactly that card from p's hand to the top of the *)
(* discard pile, adds one to p's turnsPlayed, makes (p + 1) mod 3 the      *)
(* current seat and clears hasDrawnThisTurn; the deck, the melds and the   *)
(* other players are as before.                                            *)
(***************************************************************************)
C4_AcceptedDiscard ==
  ( /\ InTurn("discard")
    /\ game # Before
    /\ last.action.cardIndex \in 0..(Len(ActorBefore.hand) - 1) ) =>
    LET p == last.seat
        i == last.action.cardIndex
    IN  /\ ActorAfter.hand = WithoutPositions(ActorBefore.hand, {i})
        /\ game.discardPile = Append(Before.discardPile, ActorBefore.hand[i + 1])
        /\ ActorAfter.turnsPlayed = ActorBefore.turnsPlayed + 1
        /\ game.currentPlayerIndex = (p + 1) % PLAYERS_REQUIRED
        /\ game.hasDrawnThisTurn = FALSE
        /\ game.deck = Before.deck
        /\ ActorAfter.exposedMelds = ActorBefore.exposedMelds
        /\ OthersUnchanged(p)

\* seat 2 has discarded the second card of its hand after drawing, and the
\* turn has wrapped to seat 0
C4_Witness ==
  /\ Started
  /\ InTurn("discard")
  /\ last.seat = 2
  /\ last.action.cardIndex = 1
  /\ Len(ActorBefore.hand) = CARDS_PER_PLAYER + 1
  /\ game.currentPlayerIndex = 0
  /\ Len(game.discardPile) = Len(Before.discardPile) + 1

(***************************************************************************)
(* C5.  A draw takes a card only when hasDrawnThisTurn is false, and never *)
(* for seat 0 before seat 0 has discarded in the current round; a draw     *)
(* that takes a card sets hasDrawnThisTurn, so that at most one card is    *)
(* drawn between two discards.                                             *)
(***************************************************************************)
C5_DrawOncePerTurn ==
  /\ ( /\ InTurn("draw")
       /\ \/ Before.hasDrawnThisTurn
          \/ /\ last.seat = 0
             /\ \/ ~Before.firstPlayerHasPlayed
                \/ Before.players[1].turnsPlayed = 0 ) =>
       game = Before
  /\ (InTurn("draw") /\ game # Before) =>
       (~Before.hasDrawnThisTurn /\ game.hasDrawnThisTurn)
  /\ drawsThisTurn <= 1

\* a seat other than 0 has drawn a card and then sent a second draw
C5_Witness ==
  /\ Started
  /\ InTurn("draw")
  /\ last.seat # 0
  /\ Before.hasDrawnThisTurn
  /\ drawsThisTurn = 1
  /\ Len(Before.deck) > 0

(***************************************************************************)
(* C6.  A draw from an empty source is a no-op: a draw with fromDeck true  *)
(* and an empty deck, or with fromDeck false and an empty discard pile,    *)
(* changes nothing and fails in no handler.                                *)
(***************************************************************************)
C6_EmptySourceDraw ==
  ( /\ InTurn("draw")
    /\ \/ last.action.fromDeck /\ Before.deck = <<>>
       \/ ~last.action.fromDeck /\ Before.discardPile = <<>> ) =>
    (game = Before /\ ~crashed)

\* a seat that was free to draw has drawn from the deck while it was empty
C6_Witness ==
  /\ InTurn("draw")
  /\ last.action.fromDeck
  /\ Before.deck = <<>>
  /\ ~Before.hasDrawnThisTurn
  /\ ~(last.seat = 0 /\ ~Before.firstPlayerHasPlayed)

(***************************************************************************)
(* C7.  Tongits: when a meld or a sapaw by the current seat takes the last *)
(* cards of its hand, the round ends at once (gameEnded) and that seat is  *)
(* the winner.                                                             *)
(***************************************************************************)
C7_EmptiedHandEndsRound ==
  ( /\ InTurn("meld") \/ InTurn("sapaw")
    /\ game # Before
    /\ Len(ActorBefore.hand) > 0
    /\ Len(ActorAfter.hand) = 0 ) =>
    (game.gameEnded /\ game.winner = ActorAfter.id)

(***************************************************************************)
(* C8.  When a meld empties the hand of the current seat, the round ends   *)
(* with that seat as winner; the winner's score is 0 and its               *)
(* consecutiveWins one more than before; every other player's score is the *)
(* point value of its hand (calculateHandPoints) and its consecutiveWins   *)
(* is 0.                                                                   *)
(***************************************************************************)
C8_MeldTongits ==
  ( /\ InTurn("meld")
    /\ game # Before
    /\ Len(ActorBefore.hand) > 0
    /\ Len(ActorAfter.hand) = 0 ) =>
    /\ game.gameEnded
    /\ game.winner = ActorBefore.id
    /\ ActorAfter.score = 0
    /\ ActorAfter.consecutiveWins = ActorBefore.consecutiveWins + 1
    /\ \A i \in DOMAIN game.players :
         i # last.seat + 1 =>
           /\ game.players[i].score = calculateHandPoints(Before.players[i].hand)
           /\ game.players[i].hand = Before.players[i].hand
           /\ game.players[i].consecutiveWins = 0

\* a meld has emptied a hand while another player held points and had a
\* winning streak to lose
C8_Witness ==
  /\ Started
  /\ InTurn("meld")
  /\ Len(ActorBefore.hand) > 0
  /\ Len(ActorAfter.hand) = 0
  /\ \E i \in DOMAIN game.players :
       /\ i # last.seat + 1
       /\ Before.players[i].consecutiveWins > 0
       /\ game.players[i].score > 0

(***************************************************************************)
(* C9.  callDraw by the current seat ends the round: every player's score  *)
(* is the point value of its hand, the winner is the player with the       *)
(* lowest score, the earliest seat among those tied for it; the winner's   *)
(* consecutiveWins goes up by one and everyone else's is 0.                *)
(***************************************************************************)
C9_CallDraw ==
  InTurn("callDraw") =>
    LET points == [i \in DOMAIN Before.players |->
                     calculateHandPoints(Before.players[i].hand)]
    IN  /\ game.gameEnded
        /\ \A i \in DOMAIN game.players :
             /\ game.players[i].score = points[i]
             /\ game.players[i].hand = Before.players[i].hand
        /\ \E w \in DOMAIN game.players :
             /\ game.winner = game.players[w].id
             /\ \A j \in DOMAIN game.players : points[w] <= points[j]
             /\ \A j \in DOMAIN game.players : j < w => points[j] > points[w]
             /\ game.players[w].consecutiveWins = Before.players[w].consecutiveWins + 1
             /\ \A j \in DOMAIN game.players :
                  j # w => game.players[j].consecutiveWins = 0

\* callDraw on dealt hands of which two tie for the lowest score, a third
\* scores more, and the later of the two tied had a winning streak
C9_Witness ==
  /\ Started
  /\ InTurn("callDraw")
  /\ \E i, j, k \in DOMAIN game.players :
       /\ i < j
       /\ game.players[i].score = game.players[j].score
       /\ game.players[i].score > 0
       /\ game.players[k].score > game.players[i].score
       /\ game.winner = game.players[i].id

(***************************************************************************)
(* C10.  sapaw by the current seat on an existing exposed meld of any      *)
(* player, its own included: when the meld followed by the named hand      *)
(* cards is a valid meld, the meld becomes that sequence, the named cards  *)
(* leave the hand and the target's isSapawed is set; otherwise nothing     *)
(* changes.  Either way the turn and hasDrawnThisTurn stay as they were.   *)
(***************************************************************************)
C10_Sapaw ==
  ( /\ InTurn("sapaw")
    /\ last.action.target.playerIndex \in 0..(Len(Before.players) - 1)
    /\ last.action.target.meldIndex \in
         0..(Len(Before.players[last.action.target.playerIndex + 1].exposedMelds) - 1) ) =>
    LET p == last.seat + 1
        t == last.action.target.playerIndex + 1
        m == last.action.target.meldIndex + 1
        named == MapAt(ActorBefore.hand, last.action.cardIndices)
        combined == Before.players[t].exposedMelds[m] \o named
        \* the target player with the meld extended and the flag set
        target == [Before.players[t] EXCEPT !.exposedMelds[m] = combined, !.isSapawed = TRUE]
        hand == WithoutPositions(ActorBefore.hand, Range(last.action.cardIndices))
    IN  /\ ~crashed
        /\ game.currentPlayerIndex = Before.currentPlayerIndex
        /\ game.hasDrawnThisTurn = Before.hasDrawnThisTurn
        /\ IF isValidMeld(combined)
             THEN /\ game.players[t].exposedMelds[m] = combined
                  /\ game.players[t].isSapawed
                  /\ game.players[p].hand = hand
                  /\ game.players[t] = [target EXCEPT !.hand = game.players[t].hand]
                  /\ game.players[p] = [(IF p = t THEN target ELSE Before.players[p])
                                          EXCEPT !.hand = hand]
                  /\ \A i \in DOMAIN game.players :
                       i \notin {p, t} => game.players[i] = Before.players[i]
                  /\ game.deck = Before.deck
                  /\ game.discardPile = Before.discardPile
                  /\ game.gameEnded = Before.gameEnded
             ELSE game = Before

\* a seat that has not drawn yet has laid a card off on another seat's meld
C10_Witness ==
  /\ Started
  /\ InTurn("sapaw")
  /\ last.action.target.playerIndex # last.seat
  /\ ~Before.hasDrawnThisTurn
  /\ game # Before
  /\ game.players[last.action.target.playerIndex + 1].isSapawed
  /\ Len(ActorAfter.hand) = Len(ActorBefore.hand) - 1

\* a lay-off that does not extend the meld to a valid one has been refused
C10_WitnessRefused ==
  /\ Started
  /\ InTurn("sapaw")
  /\ Len(Before.players) > last.action.target.playerIndex
  /\ Len(Before.players[last.action.target.playerIndex + 1].exposedMelds) > 0
  /\ Len(ActorBefore.hand) > 0
  /\ game = Before

(***************************************************************************)
(* C11.  An action with a malformed index is a silent no-op: a discard     *)
(* whose cardIndex is no position of the hand, a meld or sapaw that names  *)
(* a position outside the hand, and a sapaw whose target seat or target    *)
(* meld does not exist each leave the game as it was and fail in no        *)
(* handler.                                                                *)
(***************************************************************************)
C11_MalformedIndexNoOp ==
  LET a == last.action
      positions == 0..(Len(ActorBefore.hand) - 1)
      Outside(l) == \E k \in DOMAIN l : l[k] \notin positions
      seatMissing == a.target.playerIndex \notin 0..(Len(Before.players) - 1)
      meldMissing ==
        \/ seatMissing
        \/ a.target.meldIndex \notin
             0..(Len(Before.players[a.target.playerIndex + 1].exposedMelds) - 1)
  IN  ( \/ InTurn("discard") /\ a.cardIndex \notin positions
        \/ InTurn("meld") /\ Outside(a.cardIndices)
        \/ InTurn("sapaw") /\ (Outside(a.cardIndices) \/ meldMissing) ) =>
        (game = Before /\ ~crashed)

(***************************************************************************)
(* The lobby: 'join-game', 'disconnect' and the startGame timer around the *)
(* oldest session of the games map, the one 'join-game' finds first.  A    *)
(* game with no players stands for no session: the map is empty before the *)
(* first join, and 'disconnect' deletes the game its last player leaves.   *)
(***************************************************************************)
\* messages and disconnections explored by SpecLobby
MaxLobbySteps == 5

\* the game object 'join-game' creates
NewGame ==
  [players |-> <<>>, deck |-> <<>>, discardPile |-> <<>>, currentPlayerIndex |-> 0,
   hasDrawnThisTurn |-> FALSE, round |-> 1, gameEnded |-> FALSE, winner |-> NoWinner,
   selectedCardIndices |-> <<>>, gameStarted |-> FALSE, firstPlayerHasPlayed |-> FALSE]

\* games.find(g => g.players.length < PLAYERS_REQUIRED) takes this game
IsUnderCapacity(g) == Len(g.players) < PLAYERS_REQUIRED

\* the socket id of the next connection: one no seated player has
FreshSocketId(g) ==
  SocketIds[Least({i \in DOMAIN SocketIds :
                     \A k \in DOMAIN g.players : g.players[k].id # SocketIds[i]})]

\* does this join start the timer?
joinGameStarts(g) == Len(g.players) + 1 = PLAYERS_REQUIRED /\ ~g.gameStarted

\* the game 'join-game' has found or created, after the push and the test
\* that sets gameStarted
joinGame(g, id) ==
  [g EXCEPT !.players = Append(g.players, NewPlayer(id)),
            !.gameStarted = g.gameStarted \/ joinGameStarts(g)]

\* game.players.splice(playerIndex, 1) of 'disconnect'
disconnect(g, playerIndex) == [g EXCEPT !.players = Splice1(g.players, playerIndex)]

InitLobby ==
  /\ game = NewGame
  /\ timerPending = FALSE
  /\ crashed = FALSE
  /\ steps = 0
  /\ drawsThisTurn = 0
  /\ last = [seat |-> -1, action |-> Action("none"), before |-> NewGame]

\* a socket sends 'join-game'; when the session is full the socket is seated
\* in another session and this one is left alone
JoinGame ==
  /\ ~crashed
  /\ steps < MaxLobbySteps
  /\ steps' = steps + 1
  /\ IF game.players = <<>>
       THEN /\ game' = joinGame(NewGame, FreshSocketId(NewGame))
            /\ timerPending' = FALSE
       ELSE IF IsUnderCapacity(game)
         THEN /\ game' = joinGame(game, FreshSocketId(game))
              /\ timerPending' = (timerPending \/ joinGameStarts(game))
         ELSE UNCHANGED <<game, timerPending>>
  /\ last' = [seat |-> -1, action |-> Action("join-game"), before |-> game]
  /\ UNCHANGED <<crashed, drawsThisTurn>>

\* the socket of seat p disconnects; a timer left behind by a deleted game
\* finds no three players and does nothing
Disconnect(p) ==
  /\ ~crashed
  /\ steps < MaxLobbySteps
  /\ steps' = steps + 1
  /\ game' = disconnect(game, p)
  /\ timerPending' = (timerPending /\ Len(game.players) > 1)
  /\ last' = [seat |-> -1, action |-> Action("disconnect"), before |-> game]
  /\ UNCHANGED <<crashed, drawsThisTurn>>

NextLobby ==
  \/ StartGameTimer
  \/ JoinGame
  \/ \E p \in 0..(Len(game.players) - 1) : Disconnect(p)
  \/ \E p \in 0..(Len(game.players) - 1) : Discard(p, MaxLobbySteps)

\* the timer of setTimeout fires once it is set
SpecLobby == InitLobby /\ [][NextLobby]_vars /\ WF_vars(StartGameTimer)

ThreeSeated == Len(game.players) = PLAYERS_REQUIRED

HandsEmpty == \A i \in DOMAIN game.players : game.players[i].hand = <<>>

(***************************************************************************)
(* C12.  A session with all three seats filled eventually starts: under    *)
(* any interleaving of join-game, disconnect and the startGame timer, no   *)
(* session stays at three seated players with empty hands forever.         *)
(***************************************************************************)
C12_FilledSessionStarts == []<>(~(ThreeSeated /\ HandsEmpty))

\* the last step dealt a round: the startGame timer, or nextGame / resetGame
\* sent by the current seat
DealtRound ==
  \/ last.action.type = TimerAction.type
  \/ InTurn("nextGame")
  \/ InTurn("resetGame")

(***************************************************************************)
(* C13.  Right after startGame, nextGame or resetGame has dealt, the       *)
(* current seat is seat 0 and may act: currentPlayerIndex = 0,             *)
(* hasDrawnThisTurn is true, firstPlayerHasPlayed is false, seat 0 holds   *)
(* 13 cards, seats 1 and 2 hold 12 each, the deck holds 15 and the discard *)
(* pile is empty; and whenever seat 1 or seat 2 becomes the current seat,  *)
(* hasDrawnThisTurn is false.                                              *)
(***************************************************************************)
C13_RoundStart ==
  /\ DealtRound =>
       /\ game.currentPlayerIndex = 0
       /\ game.hasDrawnThisTurn
       /\ ~game.firstPlayerHasPlayed
       /\ Len(game.players[1].hand) = CARDS_PER_PLAYER + 1
       /\ \A i \in 2..PLAYERS_REQUIRED : Len(game.players[i].hand) = CARDS_PER_PLAYER
       /\ Len(game.deck) =
            Cardinality(StandardDeck) - PLAYERS_REQUIRED * CARDS_PER_PLAYER - 1
       /\ game.discardPile = <<>>
  /\ ( /\ game.currentPlayerIndex # Before.currentPlayerIndex
       /\ game.currentPlayerIndex \in {1, 2} ) =>
       ~game.hasDrawnThisTurn

\* the last step was a 'join-game' that seated its socket in the session
\* that already existed (a session without players stands for none)
JoinedExisting ==
  /\ last.action.type = "join-game"
  /\ Before.players # <<>>
  /\ game.players # Before.players

(***************************************************************************)
(* C14.  A participant is admitted only into a session that is under       *)
(* capacity and has not started: no participant is ever added to a         *)
(* session whose gameStarted is true.                                      *)
(***************************************************************************)
C14_AdmissionBeforeStart ==
  JoinedExisting =>
    /\ Len(Before.players) < PLAYERS_REQUIRED
    /\ ~Before.gameStarted

(***************************************************************************)
(* C15.  After resetGame the round counter is back at its zeroed value,    *)
(* zero or the value a new session starts with, and not advanced past it,  *)
(* and every player's consecutiveWins is 0.                                *)
(***************************************************************************)
C15_ResetGameZeroes ==
  InTurn("resetGame") =>
    /\ game.round \in {0, NewGame.round}
    /\ \A i \in DOMAIN game.players : game.players[i].consecutiveWins = 0

\* the message types that handlePlayerAction handles without passing the turn
KeepsTurn ==
  {"draw", "meld", "sapaw", "callDraw", "updateSelectedIndices", "autoSort", "shuffle"}

(***************************************************************************)
(* C16.  Discard is the only action that advances the turn: a draw, meld,  *)
(* sapaw, callDraw, updateSelectedIndices, autoSort or shuffle message     *)
(* leaves currentPlayerIndex as it was, nextGame and resetGame set it to   *)
(* seat 0, and the index changes in no step other than a discard, a        *)
(* nextGame or a resetGame.                                                *)
(***************************************************************************)
C16_OnlyDiscardAdvances ==
  /\ \A type \in KeepsTurn :
       Submitted(type) => game.currentPlayerIndex = Before.currentPlayerIndex
  /\ (InTurn("nextGame") \/ InTurn("resetGame")) => game.currentPlayerIndex = 0
  /\ game.currentPlayerIndex # Before.currentPlayerIndex =>
       InTurn("discard") \/ InTurn("nextGame") \/ InTurn("resetGame")

\* a meld was exposed without ending the round, and the turn stayed
C16_Witness ==
  /\ Started
  /\ InTurn("meld")
  /\ Len(ActorAfter.exposedMelds) = Len(ActorBefore.exposedMelds) + 1
  /\ ~game.gameEnded
  /\ game.currentPlayerIndex = last.seat

\* nextGame brought the turn back from another seat to seat 0
C16_WitnessNextGame ==
  /\ InTurn("nextGame")
  /\ Before.currentPlayerIndex # 0
  /\ game.currentPlayerIndex = 0

\* a sequence of distinct cards of the standard deck
DistinctCards(cards) ==
  /\ Range(cards) \subseteq StandardDeck
  /\ Cardinality(Range(cards)) = Len(cards)

\* three cards of the rank of one another, or of one suit with consecutive
\* ranks, among the given cards
HoldsMeld(cards) ==
  \E i, j, k \in DOMAIN cards :
    i < j /\ j < k /\ isValidMeld(<<cards[i], cards[j], cards[k]>>)

(***************************************************************************)
(* C17.  When callDraw scores the hands, every hand of distinct cards is   *)
(* scored as the sum of the point values of the cards calculateHandPoints  *)
(* has left, and those cards contain no three cards that form a valid      *)
(* meld.                                                                   *)
(***************************************************************************)
C17_ResidualHoldsNoMeld ==
  (Started /\ InTurn("callDraw")) =>
    \A i \in DOMAIN Before.players :
      DistinctCards(Before.players[i].hand) =>
        /\ game.players[i].score = SumPoints(Residual(Before.players[i].hand))
        /\ ~HoldsMeld(Residual(Before.players[i].hand))

\* the message types that play cards or end the round
RoundMoves == {"draw", "discard", "meld", "sapaw", "callDraw"}

(***************************************************************************)
(* C18.  Once a round has ended (gameEnded is true), a draw, discard,      *)
(* meld, sapaw or callDraw message changes no hand, no pile, no meld, no   *)
(* score, no consecutiveWins, not the winner and not currentPlayerIndex;   *)
(* so a round increments a player's consecutiveWins at most once.          *)
(***************************************************************************)
C18_EndedRoundIsFrozen ==
  (Before.gameEnded /\ \E type \in RoundMoves : Submitted(type)) =>
    /\ game.deck = Before.deck
    /\ game.discardPile = Before.discardPile
    /\ game.winner = Before.winner
    /\ game.currentPlayerIndex = Before.currentPlayerIndex
    /\ \A i \in DOMAIN Before.players :
         /\ game.players[i].hand = Before.players[i].hand
         /\ game.players[i].exposedMelds = Before.players[i].exposedMelds
         /\ game.players[i].secretMelds = Before.players[i].secretMelds
         /\ game.players[i].score = Before.players[i].score
         /\ game.players[i].consecutiveWins = Before.players[i].consecutiveWins

(***************************************************************************)
(* C19.  In every reachable state of a session that has at least one       *)
(* player, whatever the order of join-game, disconnect and player-action   *)
(* messages, currentPlayerIndex is a position of players:                  *)
(* 0 <= currentPlayerIndex < players.length.                               *)
(***************************************************************************)
C19_CurrentSeatExists ==
  game.players # <<>> =>
    /\ 0 <= game.currentPlayerIndex
    /\ game.currentPlayerIndex < Len(game.players)

\* the last message was a meld that handleMeld accepted
MeldAccepted ==
  /\ InTurn("meld")
  /\ Len(ActorAfter.exposedMelds) = Len(ActorBefore.exposedMelds) + 1

\* the meld it exposed
NewMeld == ActorAfter.exposedMelds[Len(ActorAfter.exposedMelds)]

(***************************************************************************)
(* C20.  For every cardIndices list a meld message is accepted with, a     *)
(* list that repeats a hand position included, the cards that left the     *)
(* acting player's hand are exactly the cards of the new exposed meld: no  *)
(* card is twice in the meld and no card outside the meld leaves the hand. *)
(***************************************************************************)
C20_MeldTakesItsCards ==
  MeldAccepted =>
    /\ Cardinality(Range(NewMeld)) = Len(NewMeld)
    /\ Len(ActorAfter.hand) = Len(ActorBefore.hand) - Len(NewMeld)
    /\ Range(ActorBefore.hand) \ Range(ActorAfter.hand) = Range(NewMeld)
====
